---- MODULE Spec2Model ----
(***************************************************************************)
(* Model of tools/stm32-power.py: one invocation of the command-line tool  *)
(* that drives a Kasa smart plug (status / on / off / cycle).              *)
(*                                                                         *)
(* The process state is the parsed arguments, the position of the single   *)
(* coroutine (pc), the Device object it holds, what it has written to      *)
(* standard output and standard error, and its exit code.  The plug and    *)
(* the kasa library are the environment: every awaited library call either *)
(* returns or raises an Exception carrying a message; `calls' records the  *)
(* calls in the order the program made them.                               *)
(***************************************************************************)
EXTENDS Integers, Sequences, FiniteSets, TLC

VARIABLES argv, command, host, pc, dev, elapsed,
          plugOn, plugOn0, plugAlias, calls, stdout, stderr, exitCode

vars == <<argv, command, host, pc, dev, elapsed,
          plugOn, plugOn0, plugAlias, calls, stdout, stderr, exitCode>>

(* ---------------------------- bounds ----------------------------------- *)
\* number of distinct Device objects Device.connect may hand out
NumHandles == 2

(* ------------------------- program constants --------------------------- *)
DEFAULT_HOST == "192.168.4.96"
CYCLE_DELAY == 3

Choices == {"on", "off", "cycle", "status"}
DefaultCommand == "status"

\* marks an argument left off the command line
Omitted == "<omitted>"
OtherHosts == {"192.168.4.100"}
Aliases == {"stm32-plug", ""}
\* str(e) of the exceptions the library raises
ErrMsgs == {"Unable to connect", ""}

Handles == 1..NumHandles
NoHandle == 0
NoDev == [h |-> NoHandle, alias |-> "", is_on |-> FALSE]
NoExit == -1

(* ------------------------------ helpers -------------------------------- *)
\* one entry of the call log: the awaited call, its arguments, its outcome
Call(op, hst, h, secs, ok) ==
    [op |-> op, host |-> hst, h |-> h, secs |-> secs, ok |-> ok]

Ops(s) == [i \in 1..Len(s) |-> s[i].op]
Count(s, op) == Cardinality({i \in 1..Len(s) : s[i].op = op})
Last(s) == s[Len(s)]

\* variant of main_except: the message is printed but sys.exit(1) is left
\* out, so main returns and the interpreter exits 0
main_except_no_exit(e) ==
    /\ stderr' = Append(stderr, <<"Error: ", e>>)
    /\ exitCode' = 0
    /\ pc' = "exited"

\* print(f"Error: {e}", file=sys.stderr); sys.exit(1)
main_except(e) ==
    /\ stderr' = Append(stderr, <<"Error: ", e>>)
    /\ exitCode' = 1
    /\ pc' = "exited"

\* asyncio.run returned: main falls off its end, the interpreter exits 0
main_return ==
    /\ exitCode' = 0
    /\ pc' = "exited"
    /\ UNCHANGED stderr

\* variant of commands: the on and off entries are swapped
commands_swapped(c) ==
    CASE c = "status" -> "status"
      [] c = "on"     -> "off"
      [] c = "off"    -> "on"
      [] c = "cycle"  -> "cycle"

\* variant of commands: status is bound to the handler of on
commands_status_as_on(c) ==
    CASE c = "status" -> "on"
      [] c = "on"     -> "on"
      [] c = "off"    -> "off"
      [] c = "cycle"  -> "cycle"

\* the commands table of main: the handler a command name selects
commands(c) ==
    CASE c = "status" -> "status"
      [] c = "on"     -> "on"
      [] c = "off"    -> "off"
      [] c = "cycle"  -> "cycle"

(* ------------------------------- Init ---------------------------------- *)
Init ==
    /\ argv \in [command : Choices \cup {Omitted},
                 host : OtherHosts \cup {DEFAULT_HOST, Omitted}]
    /\ command = Omitted
    /\ host = Omitted
    /\ pc = "main"
    /\ dev = NoDev
    /\ elapsed = 0
    /\ plugOn \in BOOLEAN
    /\ plugOn0 = plugOn
    /\ plugAlias \in Aliases
    /\ calls = <<>>
    /\ stdout = <<>>
    /\ stderr = <<>>
    /\ exitCode = NoExit

\* variant of main: args.host is dropped and DEFAULT_HOST is always passed
main_default_host_only ==
    /\ pc = "main"
    /\ command' = IF argv.command = Omitted THEN DefaultCommand ELSE argv.command
    /\ host' = DEFAULT_HOST
    /\ pc' = "connect"
    /\ UNCHANGED <<argv, dev, elapsed, plugOn, plugOn0, plugAlias,
                   calls, stdout, stderr, exitCode>>

(* ------------------------------ main ----------------------------------- *)
\* parser.parse_args(): nargs="?" / default= fill in what was left out;
\* then the handler commands[args.command] is called with args.host
main ==
    /\ pc = "main"
    /\ command' = IF argv.command = Omitted THEN DefaultCommand ELSE argv.command
    /\ host' = IF argv.host = Omitted THEN DEFAULT_HOST ELSE argv.host
    /\ pc' = "connect"
    /\ UNCHANGED <<argv, dev, elapsed, plugOn, plugOn0, plugAlias,
                   calls, stdout, stderr, exitCode>>

(* ---------------------------- get_device ------------------------------- *)
\* variant of get_device_connect: the await dev.update() line is missing, the
\* Device goes to the handler as connect left it
get_device_connect_no_update ==
    /\ pc = "connect"
    /\ \E h \in Handles, stale \in BOOLEAN :
          /\ dev' = [h |-> h, alias |-> "", is_on |-> stale]
          /\ calls' = Append(calls, Call("connect", host, h, 0, TRUE))
    /\ pc' = commands(command)
    /\ UNCHANGED <<argv, command, host, elapsed, plugOn, plugOn0, plugAlias,
                   stdout, stderr, exitCode>>

\* dev = await Device.connect(host=host), returning a Device whose cached
\* state is whatever the library left in it
get_device_connect ==
    /\ pc = "connect"
    /\ \E h \in Handles, stale \in BOOLEAN :
          /\ dev' = [h |-> h, alias |-> "", is_on |-> stale]
          /\ calls' = Append(calls, Call("connect", host, h, 0, TRUE))
    /\ pc' = "update"
    /\ UNCHANGED <<argv, command, host, elapsed, plugOn, plugOn0, plugAlias,
                   stdout, stderr, exitCode>>

\* variant of get_device_connect_raises: a failed connect is tried once more
\* before the exception is let through to main
get_device_connect_raises_retry ==
    /\ pc = "connect"
    /\ calls' = Append(calls, Call("connect", host, NoHandle, 0, FALSE))
    /\ IF Count(calls, "connect") = 0
       THEN /\ pc' = "connect"
            /\ UNCHANGED <<stderr, exitCode>>
       ELSE \E e \in ErrMsgs : main_except(e)
    /\ UNCHANGED <<argv, command, host, dev, elapsed, plugOn, plugOn0,
                   plugAlias, stdout>>

\* Device.connect raises
get_device_connect_raises ==
    /\ pc = "connect"
    /\ calls' = Append(calls, Call("connect", host, NoHandle, 0, FALSE))
    /\ \E e \in ErrMsgs : main_except(e)
    /\ UNCHANGED <<argv, command, host, dev, elapsed, plugOn, plugOn0,
                   plugAlias, stdout>>

\* variant of get_device_update: update returns without having fetched
\* anything, the Device keeps the state connect left in it
get_device_update_stale ==
    /\ pc = "update"
    /\ calls' = Append(calls, Call("update", "", dev.h, 0, TRUE))
    /\ pc' = commands(command)
    /\ UNCHANGED <<argv, command, host, dev, elapsed, plugOn, plugOn0,
                   plugAlias, stdout, stderr, exitCode>>

\* await dev.update(): the cached alias and is_on now mirror the plug;
\* get_device returns dev to the handler main selected
get_device_update ==
    /\ pc = "update"
    /\ dev' = [dev EXCEPT !.alias = plugAlias, !.is_on = plugOn]
    /\ calls' = Append(calls, Call("update", "", dev.h, 0, TRUE))
    /\ pc' = commands(command)
    /\ UNCHANGED <<argv, command, host, elapsed, plugOn, plugOn0, plugAlias,
                   stdout, stderr, exitCode>>

\* variant of get_device_update_raises: the exception is swallowed and the
\* handler goes on with the state the Device had after connect
get_device_update_raises_swallowed ==
    /\ pc = "update"
    /\ calls' = Append(calls, Call("update", "", dev.h, 0, FALSE))
    /\ pc' = commands(command)
    /\ UNCHANGED <<argv, command, host, dev, elapsed, plugOn, plugOn0,
                   plugAlias, stdout, stderr, exitCode>>

\* dev.update() raises
get_device_update_raises ==
    /\ pc = "update"
    /\ calls' = Append(calls, Call("update", "", dev.h, 0, FALSE))
    /\ \E e \in ErrMsgs : main_except(e)
    /\ UNCHANGED <<argv, command, host, dev, elapsed, plugOn, plugOn0,
                   plugAlias, stdout>>

\* variant of cmd_status: the test of dev.is_on is inverted
cmd_status_inverted ==
    /\ pc = "status"
    /\ LET state == IF dev.is_on THEN "OFF" ELSE "ON"
       IN stdout' = stdout \o << <<"Device: ", dev.alias>>,
                                 <<"Host:   ", host>>,
                                 <<"State:  ", state>> >>
    /\ main_return
    /\ UNCHANGED <<argv, command, host, dev, elapsed, plugOn, plugOn0,
                   plugAlias, calls>>

(* ----------------------------- cmd_status ------------------------------ *)
cmd_status ==
    /\ pc = "status"
    /\ LET state == IF dev.is_on THEN "ON" ELSE "OFF"
       IN stdout' = stdout \o << <<"Device: ", dev.alias>>,
                                 <<"Host:   ", host>>,
                                 <<"State:  ", state>> >>
    /\ main_return
    /\ UNCHANGED <<argv, command, host, dev, elapsed, plugOn, plugOn0,
                   plugAlias, calls>>

\* variant of cmd_on_already: turn_on is issued although is_on is true
cmd_on_already_unconditional ==
    /\ pc = "on"
    /\ dev.is_on
    /\ calls' = Append(calls, Call("turn_on", "", dev.h, 0, TRUE))
    /\ stdout' = Append(stdout, <<"Turned ON">>)
    /\ main_return
    /\ UNCHANGED <<argv, command, host, dev, elapsed, plugOn, plugOn0,
                   plugAlias>>

(* ------------------------------- cmd_on -------------------------------- *)
\* if dev.is_on: print("Already ON")
cmd_on_already ==
    /\ pc = "on"
    /\ dev.is_on
    /\ stdout' = Append(stdout, <<"Already ON">>)
    /\ main_return
    /\ UNCHANGED <<argv, command, host, dev, elapsed, plugOn, plugOn0,
                   plugAlias, calls>>

\* variant of cmd_on_turn_on: the else branch calls dev.turn_off()
cmd_on_turn_on_wrong_call ==
    /\ pc = "on"
    /\ ~dev.is_on
    /\ calls' = Append(calls, Call("turn_off", "", dev.h, 0, TRUE))
    /\ plugOn' = FALSE
    /\ stdout' = Append(stdout, <<"Turned ON">>)
    /\ main_return
    /\ UNCHANGED <<argv, command, host, dev, elapsed, plugOn0, plugAlias>>

\* else: await dev.turn_on(); print("Turned ON")
cmd_on_turn_on ==
    /\ pc = "on"
    /\ ~dev.is_on
    /\ calls' = Append(calls, Call("turn_on", "", dev.h, 0, TRUE))
    /\ plugOn' = TRUE
    /\ stdout' = Append(stdout, <<"Turned ON">>)
    /\ main_return
    /\ UNCHANGED <<argv, command, host, dev, elapsed, plugOn0, plugAlias>>

\* variant of cmd_on_turn_on_raises: "Turned ON" is printed ahead of the
\* await dev.turn_on() that then raises
cmd_on_turn_on_raises_printed_first ==
    /\ pc = "on"
    /\ ~dev.is_on
    /\ stdout' = Append(stdout, <<"Turned ON">>)
    /\ calls' = Append(calls, Call("turn_on", "", dev.h, 0, FALSE))
    /\ \E e \in ErrMsgs : main_except(e)
    /\ UNCHANGED <<argv, command, host, dev, elapsed, plugOn, plugOn0,
                   plugAlias>>

\* dev.turn_on() raises in the else branch
cmd_on_turn_on_raises ==
    /\ pc = "on"
    /\ ~dev.is_on
    /\ calls' = Append(calls, Call("turn_on", "", dev.h, 0, FALSE))
    /\ \E e \in ErrMsgs : main_except(e)
    /\ UNCHANGED <<argv, command, host, dev, elapsed, plugOn, plugOn0,
                   plugAlias, stdout>>

(* ------------------------------- cmd_off ------------------------------- *)
cmd_off_already ==
    /\ pc = "off"
    /\ ~dev.is_on
    /\ stdout' = Append(stdout, <<"Already OFF">>)
    /\ main_return
    /\ UNCHANGED <<argv, command, host, dev, elapsed, plugOn, plugOn0,
                   plugAlias, calls>>

cmd_off_turn_off ==
    /\ pc = "off"
    /\ dev.is_on
    /\ calls' = Append(calls, Call("turn_off", "", dev.h, 0, TRUE))
    /\ plugOn' = FALSE
    /\ stdout' = Append(stdout, <<"Turned OFF">>)
    /\ main_return
    /\ UNCHANGED <<argv, command, host, dev, elapsed, plugOn0, plugAlias>>

cmd_off_turn_off_raises ==
    /\ pc = "off"
    /\ dev.is_on
    /\ calls' = Append(calls, Call("turn_off", "", dev.h, 0, FALSE))
    /\ \E e \in ErrMsgs : main_except(e)
    /\ UNCHANGED <<argv, command, host, dev, elapsed, plugOn, plugOn0,
                   plugAlias, stdout>>

(* ------------------------------ cmd_cycle ------------------------------ *)
\* variant of cmd_cycle_turn_off: turn_off is issued only if dev.is_on
cmd_cycle_turn_off_if_on ==
    /\ pc = "cycle"
    /\ calls' = IF dev.is_on
                THEN calls \o << Call("turn_off", "", dev.h, 0, TRUE),
                                 Call("sleep", "", NoHandle, CYCLE_DELAY, TRUE) >>
                ELSE Append(calls, Call("sleep", "", NoHandle, CYCLE_DELAY, TRUE))
    /\ plugOn' = FALSE
    /\ stdout' = stdout \o << <<"Power cycling...">>,
                              <<"OFF - waiting ", ToString(CYCLE_DELAY), "s...">> >>
    /\ elapsed' = 0
    /\ pc' = "waiting"
    /\ UNCHANGED <<argv, command, host, dev, plugOn0, plugAlias,
                   stderr, exitCode>>

\* print("Power cycling..."); await dev.turn_off();
\* print(f"OFF - waiting {CYCLE_DELAY}s..."); asyncio.sleep(CYCLE_DELAY) starts
cmd_cycle_turn_off ==
    /\ pc = "cycle"
    /\ calls' = calls \o << Call("turn_off", "", dev.h, 0, TRUE),
                            Call("sleep", "", NoHandle, CYCLE_DELAY, TRUE) >>
    /\ plugOn' = FALSE
    /\ stdout' = stdout \o << <<"Power cycling...">>,
                              <<"OFF - waiting ", ToString(CYCLE_DELAY), "s...">> >>
    /\ elapsed' = 0
    /\ pc' = "waiting"
    /\ UNCHANGED <<argv, command, host, dev, plugOn0, plugAlias,
                   stderr, exitCode>>

\* variant of cmd_cycle_turn_off_raises: the failure of turn_off is ignored
\* and the handler goes on to the sleep
cmd_cycle_turn_off_raises_continue ==
    /\ pc = "cycle"
    /\ calls' = calls \o << Call("turn_off", "", dev.h, 0, FALSE),
                            Call("sleep", "", NoHandle, CYCLE_DELAY, TRUE) >>
    /\ stdout' = stdout \o << <<"Power cycling...">>,
                              <<"OFF - waiting ", ToString(CYCLE_DELAY), "s...">> >>
    /\ elapsed' = 0
    /\ pc' = "waiting"
    /\ UNCHANGED <<argv, command, host, dev, plugOn, plugOn0, plugAlias,
                   stderr, exitCode>>

\* print("Power cycling..."); dev.turn_off() raises
cmd_cycle_turn_off_raises ==
    /\ pc = "cycle"
    /\ calls' = Append(calls, Call("turn_off", "", dev.h, 0, FALSE))
    /\ stdout' = Append(stdout, <<"Power cycling...">>)
    /\ \E e \in ErrMsgs : main_except(e)
    /\ UNCHANGED <<argv, command, host, dev, elapsed, plugOn, plugOn0,
                   plugAlias>>

\* one second of the pending asyncio.sleep goes by
cmd_cycle_sleep_tick ==
    /\ pc = "waiting"
    /\ elapsed < Last(calls).secs
    /\ elapsed' = elapsed + 1
    /\ UNCHANGED <<argv, command, host, pc, dev, plugOn, plugOn0, plugAlias,
                   calls, stdout, stderr, exitCode>>

\* variant of cmd_cycle_sleep_done: when the sleep is over it is started
\* again instead of the coroutine going on
cmd_cycle_sleep_done_again ==
    /\ pc = "waiting"
    /\ elapsed = Last(calls).secs
    /\ elapsed' = 0
    /\ UNCHANGED <<argv, command, host, pc, dev, plugOn, plugOn0,
                   plugAlias, calls, stdout, stderr, exitCode>>

\* the sleep is over: the coroutine resumes at dev.turn_on()
cmd_cycle_sleep_done ==
    /\ pc = "waiting"
    /\ elapsed = Last(calls).secs
    /\ pc' = "cycle_on"
    /\ UNCHANGED <<argv, command, host, dev, elapsed, plugOn, plugOn0,
                   plugAlias, calls, stdout, stderr, exitCode>>

\* variant of cmd_cycle_turn_on: the handler connects again after the sleep
\* and calls turn_on on the Device of that second connect
cmd_cycle_turn_on_reconnect ==
    /\ pc = "cycle_on"
    /\ \E h \in Handles :
          calls' = calls \o << Call("connect", host, h, 0, TRUE),
                               Call("turn_on", "", h, 0, TRUE) >>
    /\ plugOn' = TRUE
    /\ stdout' = Append(stdout, <<"ON">>)
    /\ main_return
    /\ UNCHANGED <<argv, command, host, dev, elapsed, plugOn0, plugAlias>>

\* await dev.turn_on(); print("ON")
cmd_cycle_turn_on ==
    /\ pc = "cycle_on"
    /\ calls' = Append(calls, Call("turn_on", "", dev.h, 0, TRUE))
    /\ plugOn' = TRUE
    /\ stdout' = Append(stdout, <<"ON">>)
    /\ main_return
    /\ UNCHANGED <<argv, command, host, dev, elapsed, plugOn0, plugAlias>>

\* variant of cmd_cycle_turn_on_raises: a failed turn_on is made good by a
\* second turn_on before the exception is let through to main
cmd_cycle_turn_on_raises_compensated ==
    /\ pc = "cycle_on"
    /\ calls' = calls \o << Call("turn_on", "", dev.h, 0, FALSE),
                            Call("turn_on", "", dev.h, 0, TRUE) >>
    /\ plugOn' = TRUE
    /\ \E e \in ErrMsgs : main_except(e)
    /\ UNCHANGED <<argv, command, host, dev, elapsed, plugOn0, plugAlias,
                   stdout>>

\* dev.turn_on() raises after the sleep
cmd_cycle_turn_on_raises ==
    /\ pc = "cycle_on"
    /\ calls' = Append(calls, Call("turn_on", "", dev.h, 0, FALSE))
    /\ \E e \in ErrMsgs : main_except(e)
    /\ UNCHANGED <<argv, command, host, dev, elapsed, plugOn, plugOn0,
                   plugAlias, stdout>>

(* ------------------------------- Spec ---------------------------------- *)
Next ==
    \/ main
    \/ get_device_connect
    \/ get_device_connect_raises
    \/ get_device_update
    \/ get_device_update_raises
    \/ cmd_status
    \/ cmd_on_already
    \/ cmd_on_turn_on
    \/ cmd_on_turn_on_raises
    \/ cmd_off_already
    \/ cmd_off_turn_off
    \/ cmd_off_turn_off_raises
    \/ cmd_cycle_turn_off
    \/ cmd_cycle_turn_off_raises
    \/ cmd_cycle_sleep_tick
    \/ cmd_cycle_sleep_done
    \/ cmd_cycle_turn_on
    \/ cmd_cycle_turn_on_raises

Spec == Init /\ [][Next]_vars

\* asyncio.run drives the one coroutine until it returns or raises: given
\* that every awaited call returns or raises and the sleep elapses, the run
\* keeps taking steps as long as one is possible
FairSpec == Spec /\ WF_vars(Next)

(* ------------------------ reading the call log ------------------------- *)
Failed(op) == \E i \in 1..Len(calls) : calls[i].op = op /\ ~calls[i].ok
Succeeded(op) == \E i \in 1..Len(calls) : calls[i].op = op /\ calls[i].ok
AllOk == \A i \in 1..Len(calls) : calls[i].ok
IsPrefix(s, t) == Len(s) <= Len(t) /\ \A i \in 1..Len(s) : s[i] = t[i]
OneErrorLine == Len(stderr) = 1 /\ Len(stderr[1]) = 2 /\ stderr[1][1] = "Error: "
InStdout(line) == \E i \in 1..Len(stdout) : stdout[i] = line
Printed(line) == Cardinality({i \in 1..Len(stdout) : stdout[i] = line})
\* connect and then update have returned, on the same Device
Refreshed ==
    /\ Len(calls) >= 2
    /\ calls[1].op = "connect" /\ calls[1].ok
    /\ calls[2].op = "update" /\ calls[2].ok
    /\ calls[2].h = calls[1].h
CycleOps == <<"connect", "update", "turn_off", "sleep", "turn_on">>

\* the calls a run of command c makes when nothing fails, given the is_on
\* value the refresh delivered
FullOps(c, on) ==
    CASE c = "status" -> <<"connect", "update">>
      [] c = "on"     -> IF on THEN <<"connect", "update">>
                               ELSE <<"connect", "update", "turn_on">>
      [] c = "off"    -> IF on THEN <<"connect", "update", "turn_off">>
                               ELSE <<"connect", "update">>
      [] c = "cycle"  -> CycleOps

(* ------------------------------- claims -------------------------------- *)
\* C1: whatever the command, once connect or refresh has failed the process
\* has exited with code 1, standard error holds exactly one "Error: ..."
\* line, standard output is empty and no turn_on / turn_off was issued.
C1_ConnectOrRefreshFailure ==
    (Failed("connect") \/ Failed("update")) =>
        /\ pc = "exited"
        /\ exitCode = 1
        /\ OneErrorLine
        /\ stdout = <<>>
        /\ Count(calls, "turn_on") = 0
        /\ Count(calls, "turn_off") = 0

C1_Witness ==
    /\ command = "cycle"
    /\ Failed("update")
    /\ pc = "exited"

\* C2: a cycle run only ever makes the calls connect, refresh, turn_off,
\* sleep, turn_on in that order; after a successful refresh it always issues
\* turn_off, whatever is_on was; and a run that ends without a failure has
\* made exactly that sequence, each call once, the sleep being one of 3 s
\* that ran its full length.
C2_CycleSequence ==
    command = "cycle" =>
        /\ IsPrefix(Ops(calls), CycleOps)
        /\ (pc \in {"waiting", "cycle_on", "exited"} /\ Succeeded("update"))
              => Count(calls, "turn_off") = 1
        /\ (pc = "exited" /\ exitCode = 0) =>
              /\ Ops(calls) = CycleOps
              /\ AllOk
              /\ calls[4].secs = 3
              /\ elapsed = 3

C2_Witness ==
    /\ command = "cycle"
    /\ pc = "exited"
    /\ exitCode = 0
    /\ ~dev.is_on
    /\ ~plugOn0

\* C3: in a cycle run whose turn_off failed, turn_on is never called, the
\* sleep is never entered, and the process has exited with code 1.
C3_CycleTurnOffFailure ==
    (command = "cycle" /\ Failed("turn_off")) =>
        /\ Count(calls, "turn_on") = 0
        /\ Count(calls, "sleep") = 0
        /\ pc = "exited"
        /\ exitCode = 1

C3_Witness ==
    /\ command = "cycle"
    /\ Failed("turn_off")
    /\ pc = "exited"
    /\ dev.is_on

\* C4: an on run that found is_on true after the refresh printed exactly
\* "Already ON", issued neither turn_on nor turn_off, and exited 0 with
\* nothing on standard error.
C4_OnAlreadyOn ==
    (command = "on" /\ pc = "exited" /\ Succeeded("update") /\ dev.is_on) =>
        /\ stdout = << <<"Already ON">> >>
        /\ Count(calls, "turn_on") = 0
        /\ Count(calls, "turn_off") = 0
        /\ exitCode = 0
        /\ stderr = <<>>

C4_Witness ==
    /\ command = "on"
    /\ pc = "exited"
    /\ Succeeded("update")
    /\ dev.is_on
    /\ plugOn

\* C5: an on run that found is_on false after the refresh issued exactly
\* one turn_on call and no turn_off call; standard output holds "Turned ON",
\* and nothing else, exactly if that call succeeded, and is empty otherwise.
C5_OnWhenOff ==
    (command = "on" /\ pc = "exited" /\ Succeeded("update") /\ ~dev.is_on) =>
        /\ Count(calls, "turn_on") = 1
        /\ Count(calls, "turn_off") = 0
        /\ Last(calls).op = "turn_on"
        /\ stdout = IF Last(calls).ok THEN << <<"Turned ON">> >> ELSE <<>>

C5_Witness ==
    /\ command = "on"
    /\ pc = "exited"
    /\ ~dev.is_on
    /\ Succeeded("turn_on")
    /\ stdout = << <<"Turned ON">> >>

\* C6: an off run never issues turn_on; if it found is_on false after the
\* refresh it printed exactly "Already OFF" and issued no turn_off; if it
\* found is_on true it issued exactly one turn_off and standard output holds
\* "Turned OFF", and nothing else, once that call succeeded.
C6_OffSymmetric ==
    command = "off" =>
        /\ Count(calls, "turn_on") = 0
        /\ (pc = "exited" /\ Succeeded("update")) =>
              IF ~dev.is_on
              THEN /\ stdout = << <<"Already OFF">> >>
                   /\ Count(calls, "turn_off") = 0
                   /\ exitCode = 0
              ELSE /\ Count(calls, "turn_off") = 1
                   /\ Last(calls).op = "turn_off"
                   /\ stdout = IF Last(calls).ok THEN << <<"Turned OFF">> >>
                                                 ELSE <<>>

C6_Witness ==
    /\ command = "off"
    /\ pc = "exited"
    /\ dev.is_on
    /\ Succeeded("turn_off")
    /\ stdout = << <<"Turned OFF">> >>

\* C7: a status run issues no turn_on and no turn_off, and the plug's power
\* state stays what it was when the run started, for either value of is_on.
C7_StatusNoMutation ==
    command = "status" =>
        /\ Count(calls, "turn_on") = 0
        /\ Count(calls, "turn_off") = 0
        /\ plugOn = plugOn0

C7_Witness ==
    /\ command = "status"
    /\ pc = "exited"
    /\ exitCode = 0
    /\ dev.is_on
    /\ Len(stdout) = 3

\* C8: a run that has exited has exit code 0 exactly if it made the full
\* call sequence of its command with no call failing, and exit code 1
\* exactly if one of connect, refresh, turn_on, turn_off failed; standard
\* error holds one "Error: <message>" line in the failing runs and is empty
\* in the successful ones and as long as the run has not exited.
C8_ExitCodeAndStderr ==
    /\ pc # "exited" => (exitCode = NoExit /\ stderr = <<>> /\ AllOk)
    /\ pc = "exited" =>
          /\ exitCode \in {0, 1}
          /\ exitCode = 0 <=> (AllOk /\ Ops(calls) = FullOps(command, dev.is_on))
          /\ exitCode = 1 <=> (\E op \in {"connect", "update", "turn_on", "turn_off"} :
                                  Failed(op))
          /\ exitCode = 1 => OneErrorLine
          /\ exitCode = 0 => stderr = <<>>

C8_Witness ==
    /\ pc = "exited"
    /\ exitCode = 1
    /\ Failed("turn_on")
    /\ command = "cycle"
    /\ OneErrorLine

\* C9 as stated: a status run whose connect succeeded prints the three
\* status lines and exits 0.
C9_StatusSucceedsIfConnected ==
    (command = "status" /\ pc = "exited" /\ Succeeded("connect")) =>
        /\ exitCode = 0
        /\ Len(stdout) = 3

\* C9 amended: a status run whose connect and refresh both succeeded prints
\* the three status lines (the plug's alias, the host, the plug's state) and
\* exits 0.
C9_StatusSucceedsIfRefreshed ==
    (command = "status" /\ Succeeded("update")) =>
        \/ pc = "status"
        \/ /\ pc = "exited"
           /\ exitCode = 0
           /\ stderr = <<>>
           /\ stdout = << <<"Device: ", plugAlias>>,
                          <<"Host:   ", host>>,
                          <<"State:  ", IF plugOn THEN "ON" ELSE "OFF">> >>

C9_Witness ==
    /\ command = "status"
    /\ Succeeded("update")
    /\ pc = "exited"
    /\ ~plugOn
    /\ argv.host = Omitted

\* C10: an invocation calls connect at most once, exactly once as soon as it
\* is past get_device's first line, never again after a failure; the Device
\* the program holds is the one that connect returned, and every refresh,
\* turn_on and turn_off is made on it.
C10_SingleHandle ==
    /\ Count(calls, "connect") <= 1
    /\ pc \notin {"main", "connect"} =>
          /\ Count(calls, "connect") = 1
          /\ calls[1].op = "connect"
    /\ dev # NoDev => (calls[1].ok /\ dev.h = calls[1].h /\ dev.h \in Handles)
    /\ \A i \in 1..Len(calls) :
          calls[i].op \in {"update", "turn_on", "turn_off"} =>
              /\ calls[1].ok
              /\ calls[i].h = calls[1].h
              /\ calls[i].h \in Handles

C10_Witness ==
    /\ command = "cycle"
    /\ pc = "exited"
    /\ Succeeded("turn_on")
    /\ calls[1].h = 2
    /\ calls[5].h = 2

\* C11: in every run of every command the refresh is the first thing done
\* with the Device after connect: a handler body (where dev.is_on and
\* dev.alias are read) is entered, something is printed, and turn_on,
\* turn_off or the sleep are called only once connect and then update have
\* returned; the is_on and alias a handler reads are the refreshed ones; and
\* the calls of a run are in the order connect, update, act, [sleep, act].
C11_RefreshFirst ==
    /\ pc \in {"status", "on", "off", "cycle", "waiting", "cycle_on"} => Refreshed
    /\ pc \in {"status", "on", "off", "cycle"} =>
          (Len(calls) = 2 /\ dev.is_on = plugOn /\ dev.alias = plugAlias)
    /\ stdout # <<>> => Refreshed
    /\ \A i \in 1..Len(calls) :
          calls[i].op \in {"turn_on", "turn_off", "sleep"} => (i > 2 /\ Refreshed)
    /\ command # Omitted =>
          \E on \in BOOLEAN : IsPrefix(Ops(calls), FullOps(command, on))

C11_Witness ==
    /\ command = "off"
    /\ pc = "exited"
    /\ exitCode = 0
    /\ plugOn0
    /\ Ops(calls) = <<"connect", "update", "turn_off">>

\* C12: no retries, and a failure ends the run: every step of a run starts
\* from a state in which the process has not exited and no call has failed
\* yet, and a step in which a call fails makes that one call and nothing
\* after it, and leaves the process exited with code 1.  So after a failed
\* call there is no further call and no sleep, and no call is repeated.
C12_NoRetryFailedTerminal ==
    [][ /\ pc # "exited"
        /\ AllOk
        /\ ~AllOk' => /\ pc' = "exited"
                      /\ exitCode' = 1
                      /\ Len(calls') = Len(calls) + 1
                      /\ ~Last(calls').ok ]_vars

C12_Witness ==
    /\ command = "off"
    /\ Failed("turn_off")
    /\ pc = "exited"
    /\ exitCode = 1
    /\ Len(calls) = 3

\* C13: the host of every connect call is the default host address
\* 192.168.4.96 when --host was left out and the --host value, unchanged,
\* when one was given; a run connects to no other host, and the host the
\* handlers work with is that same one.
C13_HostPassedToConnect ==
    LET expected == IF argv.host = Omitted THEN "192.168.4.96" ELSE argv.host
    IN /\ \A i \in 1..Len(calls) :
             calls[i].op = "connect" => calls[i].host = expected
       /\ pc # "main" => host = expected

C13_Witness ==
    /\ argv.host = "192.168.4.100"
    /\ Succeeded("connect")
    /\ calls[1].host = "192.168.4.100"
    /\ pc = "exited"

\* C14: a cycle run whose turn_off succeeded and whose turn_on then failed
\* has exited with code 1 after exactly one turn_off, one sleep that ran
\* its 3 s, and the one failed turn_on, with nothing called to undo or make
\* up for it; the plug is off; standard output holds "Power cycling..." and
\* "OFF - waiting 3s..." and no "ON" line.
C14_CycleTurnOnFailure ==
    (command = "cycle" /\ Failed("turn_on")) =>
        /\ pc = "exited"
        /\ exitCode = 1
        /\ OneErrorLine
        /\ Ops(calls) = CycleOps
        /\ \A i \in 1..4 : calls[i].ok
        /\ ~calls[5].ok
        /\ calls[4].secs = 3
        /\ elapsed = 3
        /\ ~plugOn
        /\ stdout = << <<"Power cycling...">>,
                       <<"OFF - waiting ", "3", "s...">> >>

C14_Witness ==
    /\ command = "cycle"
    /\ Failed("turn_on")
    /\ Succeeded("turn_off")
    /\ plugOn0
    /\ ~plugOn
    /\ pc = "exited"

\* C15: provided every awaited call eventually returns or raises and the
\* sleep eventually elapses, every run of every command eventually has
\* exited, with code 0 or 1; it does not stay in the sleep or in any other
\* intermediate position for ever.
C15_RunTerminates ==
    <>(pc = "exited" /\ exitCode \in {0, 1})

C15_Witness ==
    /\ command = "cycle"
    /\ pc = "exited"
    /\ exitCode = 0
    /\ elapsed = CYCLE_DELAY
    /\ dev.is_on
    /\ plugOn

\* C16: no success message is on standard output ahead of the call it
\* reports: "Turned ON" and the cycle's "ON" are there only if a turn_on of
\* this run returned, "Turned OFF" and "OFF - waiting 3s..." only if a
\* turn_off of this run returned; and "OFF - waiting 3s..." is printed before
\* the sleep starts: it is there, once, from the moment the sleep is entered
\* with none of its 3 s gone, and is not printed again afterwards.
C16_MessageAfterCall ==
    LET waitingLine == <<"OFF - waiting ", "3", "s...">>
    IN /\ InStdout(<<"Turned ON">>) => Succeeded("turn_on")
       /\ InStdout(<<"ON">>) => Succeeded("turn_on")
       /\ InStdout(<<"Turned OFF">>) => Succeeded("turn_off")
       /\ InStdout(waitingLine) => Succeeded("turn_off")
       /\ Count(calls, "sleep") > 0 => Printed(waitingLine) = 1
       /\ Count(calls, "sleep") = 0 => Printed(waitingLine) = 0

C16_Witness ==
    /\ command = "cycle"
    /\ pc = "waiting"
    /\ elapsed = 0
    /\ Succeeded("turn_off")
    /\ stdout = << <<"Power cycling...">>, <<"OFF - waiting ", "3", "s...">> >>

\* C17: with the plug changed by this run only, and a turn_on / turn_off
\* that returned having set the plug on / off: an on run that exited 0
\* leaves the plug on, an off run that exited 0 leaves it off, a cycle run
\* that exited 0 leaves it on, and in a cycle run the plug is off from the
\* start of the sleep to its end.
C17_PlugStateAtExit ==
    /\ (pc = "exited" /\ exitCode = 0) =>
          /\ command = "on" => plugOn
          /\ command = "off" => ~plugOn
          /\ command = "cycle" => plugOn
    /\ pc \in {"waiting", "cycle_on"} => ~plugOn

C17_Witness ==
    /\ command = "cycle"
    /\ pc = "cycle_on"
    /\ elapsed = 3
    /\ plugOn0
    /\ ~plugOn

====
